---- MODULE Spec2Model ----
(***************************************************************************)
(* Model of packages/polyfills-loader/src/createPolyfillsData.ts:          *)
(* createPolyfillsData(cfg) interprets the polyfill flags into an ordered  *)
(* list of PolyfillConfig entries (lines 27-197) and then materializes     *)
(* every entry into a PolyfillFile (lines 216-251).                        *)
(*                                                                         *)
(* JavaScript values are written as strings: UNDEF is `undefined`, "true", *)
(* "false" and "always" are the flag values.  A path string is the         *)
(* sequence of its '/'-separated segments.  A text is the sequence of its  *)
(* '\n'-separated lines and a line is a sequence of tokens.                *)
(***************************************************************************)
EXTENDS Integers, Sequences, FiniteSets, TLC

VARIABLES
  cfg,             \* the PolyfillsLoaderConfig handed to createPolyfillsData
  missing,         \* module specifiers require.resolve cannot locate
  disk,            \* the file system: file path -> text (NoFile when absent)
  pc,              \* position of the call: start, loop, minify, emit, done, failed
  polyfillConfigs, \* local polyfillConfigs (line 10)
  polyfillFiles,   \* local polyfillFiles (line 216)
  idx,             \* index of the for-of loop of line 218
  content,         \* local content of the current iteration (line 222)
  result,          \* settlement of the returned promise
  fsReads,         \* files read with fs.readFileSync during this call
  minifyCalls,     \* number of Terser.minify invocations during this call
  prev,            \* settlement of the previous call (same cfg, earlier disk)
  edited           \* the files whose content changed since the previous call

vars == <<cfg, missing, disk, pc, polyfillConfigs, polyfillFiles, idx, content,
          result, fsReads, minifyCalls, prev, edited>>

(***************************************************************************)
(* Bounds of the model.                                                    *)
(***************************************************************************)
MaxEnabled == 2    \* at most this many built-in flags are set in one cfg
MaxCustom == 2     \* at most this many entries in polyfills.custom

(***************************************************************************)
(* JavaScript values.                                                      *)
(***************************************************************************)
UNDEF == "<undefined>"

Truthy(v) == v \notin {UNDEF, "false", ""}

\* utils.ts (imported on line 5)
noModuleSupportTest == "!('noModule' in HTMLScriptElement.prototype)"

fileTypes == [SCRIPT |-> "script", SYSTEMJS |-> "systemjs"]

\* A PolyfillConfig.path: undefined, one string, or an array of strings.
NoPath == [kind |-> "undefined", files |-> <<UNDEF>>]

PathString(p) == [kind |-> "string", files |-> <<p>>]

PathArray(ps) == [kind |-> "array", files |-> ps]

\* !polyfillConfig.path: undefined and '' are falsy, every array is truthy.
PathFalsy(p) == p.kind = "undefined" \/ (p.kind = "string" /\ p.files[1] = "")

PolyfillConfig(name, path, test, initializer, minify) ==
  [name |-> name, path |-> path, test |-> test, initializer |-> initializer,
   minify |-> minify, fileType |-> UNDEF]

(***************************************************************************)
(* require.resolve: the source locator.                                    *)
(***************************************************************************)
Specifiers ==
  {"core-js-bundle/minified.js", "urlpattern-polyfill", "es-module-shims",
   "construct-style-sheets-polyfill", "regenerator-runtime/runtime",
   "whatwg-fetch/dist/fetch.umd.js", "abortcontroller-polyfill/dist/umd-polyfill.js",
   "systemjs/dist/system.min.js", "systemjs/dist/s.min.js",
   "dynamic-import-polyfill/dist/dynamic-import-polyfill.umd.js",
   "intersection-observer/intersection-observer.js",
   "resize-observer-polyfill/dist/ResizeObserver.global.js",
   "@webcomponents/scoped-custom-element-registry/scoped-custom-element-registry.min.js",
   "@webcomponents/webcomponentsjs/webcomponents-bundle.js",
   "@webcomponents/webcomponentsjs/custom-elements-es5-adapter.js",
   "@webcomponents/shadycss/custom-style-interface.min.js",
   "shady-css-scoped-element/shady-css-scoped-element.min.js"}

\* The absolute path require.resolve returns for a specifier it can locate.
Resolved(spec) == "/node_modules/" \o spec

\* The error require.resolve throws for a specifier it cannot locate.
ModuleNotFound(spec) ==
  [code |-> "MODULE_NOT_FOUND", message |-> "Cannot find module '" \o spec \o "'"]

Error(message) == [code |-> UNDEF, message |-> message]

(***************************************************************************)
(* One block of the interpreter: the specifiers its argument expressions   *)
(* resolve (in evaluation order), the error it throws itself, and the      *)
(* entries it hands to addPolyfillConfig.                                  *)
(***************************************************************************)
Block(resolve, add) == [resolve |-> resolve, throws |-> UNDEF, add |-> add]

Skip == Block(<<>>, <<>>)

Throw(message) == [resolve |-> <<>>, throws |-> message, add |-> <<>>]
(***************************************************************************)
(* Lines 27-195: the built-in blocks, in source order.                     *)
(***************************************************************************)
coreJsBlock(polyfills) ==
  IF Truthy(polyfills.coreJs)
    THEN Block(<<"core-js-bundle/minified.js">>,
               <<PolyfillConfig("core-js",
                   PathString(Resolved("core-js-bundle/minified.js")),
                   noModuleSupportTest, UNDEF, UNDEF)>>)
    ELSE Skip

URLPatternTest == "\"URLPattern\" in window"

URLPatternBlock(polyfills) ==
  IF Truthy(polyfills.URLPattern)
    THEN Block(<<"urlpattern-polyfill">>,
               <<PolyfillConfig("urlpattern-polyfill",
                   PathString(Resolved("urlpattern-polyfill")),
                   URLPatternTest, UNDEF, UNDEF)>>)
    ELSE Skip

esModuleShimsBlock(polyfills) ==
  IF Truthy(polyfills.esModuleShims)
    THEN Block(<<"es-module-shims">>,
               <<PolyfillConfig("es-module-shims",
                   PathString(Resolved("es-module-shims")),
                   IF polyfills.esModuleShims # "always" THEN "1" ELSE UNDEF,
                   UNDEF, UNDEF)>>)
    ELSE Skip

constructibleStylesheetsTest == "!(\"adoptedStyleSheets\" in document)"

constructibleStylesheetsBlock(polyfills) ==
  IF Truthy(polyfills.constructibleStylesheets)
    THEN Block(<<"construct-style-sheets-polyfill">>,
               <<PolyfillConfig("constructible-style-sheets-polyfill",
                   PathString(Resolved("construct-style-sheets-polyfill")),
                   constructibleStylesheetsTest, UNDEF, UNDEF)>>)
    ELSE Skip

regeneratorRuntimeBlock(polyfills) ==
  IF Truthy(polyfills.regeneratorRuntime)
    THEN Block(<<"regenerator-runtime/runtime">>,
               <<PolyfillConfig("regenerator-runtime",
                   PathString(Resolved("regenerator-runtime/runtime")),
                   IF polyfills.regeneratorRuntime # "always"
                     THEN noModuleSupportTest ELSE UNDEF,
                   UNDEF, UNDEF)>>)
    ELSE Skip

fetchBlock(polyfills) ==
  IF Truthy(polyfills.fetch)
    THEN IF Truthy(polyfills.abortController)
           THEN Block(<<"whatwg-fetch/dist/fetch.umd.js",
                        "abortcontroller-polyfill/dist/umd-polyfill.js">>,
                      <<PolyfillConfig("fetch",
                          PathArray(<<Resolved("whatwg-fetch/dist/fetch.umd.js"),
                                      Resolved("abortcontroller-polyfill/dist/umd-polyfill.js")>>),
                          "!('fetch' in window)" \o
                            " || !('Request' in window) || !('signal' in window.Request.prototype)",
                          UNDEF, "true")>>)
           ELSE Block(<<"whatwg-fetch/dist/fetch.umd.js">>,
                      <<PolyfillConfig("fetch",
                          PathArray(<<Resolved("whatwg-fetch/dist/fetch.umd.js")>>),
                          "!('fetch' in window)" \o "",
                          UNDEF, "true")>>)
    ELSE Skip

\* Lines 85-87 testing fetch instead of its absence.
abortControllerCheckInverted(polyfills) ==
  IF Truthy(polyfills.abortController) /\ Truthy(polyfills.fetch)
    THEN Throw("Cannot polyfill AbortController without fetch.")
    ELSE Skip

abortControllerCheck(polyfills) ==
  IF Truthy(polyfills.abortController) /\ ~Truthy(polyfills.fetch)
    THEN Throw("Cannot polyfill AbortController without fetch.")
    ELSE Skip

\* utils.hasFileOfType: some declared modern or legacy file has the type.
hasFileOfType(c, type) ==
  \/ c.modern.defined /\ \E k \in DOMAIN c.modern.files : c.modern.files[k].type = type
  \/ c.legacy.defined /\ \E e \in DOMAIN c.legacy.entries :
       \E k \in DOMAIN c.legacy.entries[e].files :
         c.legacy.entries[e].files[k].type = type

\* Array.prototype.join(' || ') over the legacy entries' tests.
RECURSIVE JoinTests(_)
JoinTests(entries) ==
  IF Len(entries) = 0 THEN ""
  ELSE IF Len(entries) = 1 THEN entries[1].test
  ELSE entries[1].test \o " || " \o JoinTests(Tail(entries))

\* Lines 90-91.
hasSystemJs(c) ==
  \E k \in DOMAIN c.polyfills.custom : c.polyfills.custom[k].name = "systemjs"

\* Lines 98-100.
systemjsTest(c) ==
  LET alwaysLoad == c.modern.defined /\
        \E k \in DOMAIN c.modern.files : c.modern.files[k].type = fileTypes.SYSTEMJS
  IN IF alwaysLoad \/ ~c.legacy.defined THEN UNDEF ELSE JoinTests(c.legacy.entries)

\* Lines 92-96 without the look at the custom entries.
systemjsNeededWhateverCustom(c) ==
  \/ Truthy(c.polyfills.systemjs)
  \/ Truthy(c.polyfills.systemjsExtended)
  \/ hasFileOfType(c, fileTypes.SYSTEMJS)

\* Lines 92-96.
systemjsNeeded(c) ==
  \/ Truthy(c.polyfills.systemjs)
  \/ Truthy(c.polyfills.systemjsExtended)
  \/ (~hasSystemJs(c) /\ hasFileOfType(c, fileTypes.SYSTEMJS))

\* systemjsBlock with two independent ifs: both variants when both flags are set.
systemjsBlockBoth(c) ==
  IF systemjsNeeded(c)
    THEN IF Truthy(c.polyfills.systemjsExtended)
           THEN Block(<<"systemjs/dist/system.min.js", "systemjs/dist/s.min.js">>,
                      <<PolyfillConfig("systemjs",
                          PathString(Resolved("systemjs/dist/system.min.js")),
                          systemjsTest(c), UNDEF, UNDEF)>>
                      \o (IF Truthy(c.polyfills.systemjs)
                            THEN <<PolyfillConfig("systemjs",
                                     PathString(Resolved("systemjs/dist/s.min.js")),
                                     systemjsTest(c), UNDEF, UNDEF)>>
                            ELSE <<>>))
           ELSE Block(<<"systemjs/dist/s.min.js">>,
                      <<PolyfillConfig("systemjs",
                          PathString(Resolved("systemjs/dist/s.min.js")),
                          systemjsTest(c), UNDEF, UNDEF)>>)
    ELSE Skip

systemjsBlock(c) ==
  IF systemjsNeeded(c)
    THEN IF Truthy(c.polyfills.systemjsExtended)
           THEN Block(<<"systemjs/dist/system.min.js">>,
                      <<PolyfillConfig("systemjs",
                          PathString(Resolved("systemjs/dist/system.min.js")),
                          systemjsTest(c), UNDEF, UNDEF)>>)
           ELSE Block(<<"systemjs/dist/s.min.js">>,
                      <<PolyfillConfig("systemjs",
                          PathString(Resolved("systemjs/dist/s.min.js")),
                          systemjsTest(c), UNDEF, UNDEF)>>)
    ELSE Skip

dynamicImportBlock(polyfills) ==
  IF Truthy(polyfills.dynamicImport)
    THEN Block(<<"dynamic-import-polyfill/dist/dynamic-import-polyfill.umd.js">>,
               <<PolyfillConfig("dynamic-import",
                   PathString(Resolved("dynamic-import-polyfill/dist/dynamic-import-polyfill.umd.js")),
                   "'noModule' in HTMLScriptElement.prototype && " \o
                   "(function () { try { Function('window.importShim = s => import(s);').call(); return false; } catch (_) { return true; } })()",
                   "window.dynamicImportPolyfill.initialize({ importFunctionName: 'importShim' });",
                   UNDEF)>>)
    ELSE Skip

intersectionObserverBlock(polyfills) ==
  IF Truthy(polyfills.intersectionObserver)
    THEN Block(<<"intersection-observer/intersection-observer.js">>,
               <<PolyfillConfig("intersection-observer",
                   PathString(Resolved("intersection-observer/intersection-observer.js")),
                   "!('IntersectionObserver' in window && 'IntersectionObserverEntry' in window && 'intersectionRatio' in window.IntersectionObserverEntry.prototype)",
                   UNDEF, "true")>>)
    ELSE Skip

resizeObserverTest == "!('ResizeObserver' in window)"

resizeObserverBlock(polyfills) ==
  IF Truthy(polyfills.resizeObserver)
    THEN Block(<<"resize-observer-polyfill/dist/ResizeObserver.global.js">>,
               <<PolyfillConfig("resize-observer",
                   PathString(Resolved("resize-observer-polyfill/dist/ResizeObserver.global.js")),
                   resizeObserverTest, UNDEF, "true")>>)
    ELSE Skip

scopedCustomElementRegistryBlock(polyfills) ==
  IF Truthy(polyfills.scopedCustomElementRegistry)
    THEN Block(<<"@webcomponents/scoped-custom-element-registry/scoped-custom-element-registry.min.js">>,
               <<PolyfillConfig("scoped-custom-element-registry",
                   PathString(Resolved("@webcomponents/scoped-custom-element-registry/scoped-custom-element-registry.min.js")),
                   "!('createElement' in ShadowRoot.prototype)", UNDEF, UNDEF)>>)
    ELSE Skip

webcomponentsBlock(polyfills) ==
  IF Truthy(polyfills.webcomponents) /\ ~Truthy(polyfills.shadyCssCustomStyle)
    THEN Block(<<"@webcomponents/webcomponentsjs/webcomponents-bundle.js",
                 "@webcomponents/webcomponentsjs/custom-elements-es5-adapter.js">>,
               <<PolyfillConfig("webcomponents",
                   PathString(Resolved("@webcomponents/webcomponentsjs/webcomponents-bundle.js")),
                   "!('attachShadow' in Element.prototype) || !('getRootNode' in Element.prototype) || (window.ShadyDOM && window.ShadyDOM.force)",
                   UNDEF, UNDEF),
                 PolyfillConfig("custom-elements-es5-adapter",
                   PathString(Resolved("@webcomponents/webcomponentsjs/custom-elements-es5-adapter.js")),
                   "!('noModule' in HTMLScriptElement.prototype) && 'getRootNode' in Element.prototype",
                   UNDEF, UNDEF)>>)
    ELSE Skip

shadyCssCustomStyleSources ==
  <<"@webcomponents/webcomponentsjs/webcomponents-bundle.js",
    "@webcomponents/shadycss/custom-style-interface.min.js",
    "shady-css-scoped-element/shady-css-scoped-element.min.js">>

\* Lines 182-195 with the custom-style interface ahead of the bundle.
shadyCssCustomStyleBlockSwapped(polyfills) ==
  IF Truthy(polyfills.webcomponents) /\ Truthy(polyfills.shadyCssCustomStyle)
    THEN Block(shadyCssCustomStyleSources,
               <<PolyfillConfig("webcomponents-shady-css-custom-style",
                   PathArray(<<Resolved(shadyCssCustomStyleSources[2]),
                               Resolved(shadyCssCustomStyleSources[1]),
                               Resolved(shadyCssCustomStyleSources[3])>>),
                   "!('attachShadow' in Element.prototype) || !('getRootNode' in Element.prototype)",
                   UNDEF, UNDEF)>>)
    ELSE Skip

shadyCssCustomStyleBlock(polyfills) ==
  IF Truthy(polyfills.webcomponents) /\ Truthy(polyfills.shadyCssCustomStyle)
    THEN Block(shadyCssCustomStyleSources,
               <<PolyfillConfig("webcomponents-shady-css-custom-style",
                   PathArray([k \in 1..3 |-> Resolved(shadyCssCustomStyleSources[k])]),
                   "!('attachShadow' in Element.prototype) || !('getRootNode' in Element.prototype)",
                   UNDEF, UNDEF)>>)
    ELSE Skip

\* Blocks with the systemjs block run before the fetch block.
BlocksSystemjsFirst(c) ==
  <<coreJsBlock(c.polyfills), URLPatternBlock(c.polyfills),
    esModuleShimsBlock(c.polyfills), constructibleStylesheetsBlock(c.polyfills),
    regeneratorRuntimeBlock(c.polyfills), systemjsBlock(c), fetchBlock(c.polyfills),
    abortControllerCheck(c.polyfills),
    dynamicImportBlock(c.polyfills), intersectionObserverBlock(c.polyfills),
    resizeObserverBlock(c.polyfills), scopedCustomElementRegistryBlock(c.polyfills),
    webcomponentsBlock(c.polyfills), shadyCssCustomStyleBlock(c.polyfills)>>

\* The blocks in the order the source runs them.
Blocks(c) ==
  <<coreJsBlock(c.polyfills), URLPatternBlock(c.polyfills),
    esModuleShimsBlock(c.polyfills), constructibleStylesheetsBlock(c.polyfills),
    regeneratorRuntimeBlock(c.polyfills), fetchBlock(c.polyfills),
    abortControllerCheck(c.polyfills), systemjsBlock(c),
    dynamicImportBlock(c.polyfills), intersectionObserverBlock(c.polyfills),
    resizeObserverBlock(c.polyfills), scopedCustomElementRegistryBlock(c.polyfills),
    webcomponentsBlock(c.polyfills), shadyCssCustomStyleBlock(c.polyfills)>>

(***************************************************************************)
(* Lines 12-25: addPolyfillConfig.  Its try block holds only the push,     *)
(* which does not throw: the argument, require.resolve included, has been  *)
(* evaluated by the caller before addPolyfillConfig is entered, so the     *)
(* catch clause is never run.                                              *)
(***************************************************************************)
addPolyfillConfig(configs, polyfillConfig) == Append(configs, polyfillConfig)

RECURSIVE addAll(_, _)
addAll(configs, entries) ==
  IF entries = <<>> THEN configs
  ELSE addAll(addPolyfillConfig(configs, Head(entries)), Tail(entries))

\* The first specifier of a block that require.resolve cannot locate, if any.
RECURSIVE FirstMissing(_, _)
FirstMissing(specs, gone) ==
  IF specs = <<>> THEN UNDEF
  ELSE IF Head(specs) \in gone THEN Head(specs)
  ELSE FirstMissing(Tail(specs), gone)

\* The error a block's argument evaluation lets escape to the caller.
resolveError(spec) == ModuleNotFound(spec)

\* Lines 27-195: run the blocks from block k on; stop at the first throw.
RECURSIVE runBlocks(_, _, _, _)
runBlocks(blocks, k, gone, configs) ==
  IF k > Len(blocks) THEN [threw |-> FALSE, error |-> Error(UNDEF), configs |-> configs]
  ELSE LET b == blocks[k]
           m == FirstMissing(b.resolve, gone)
       IN IF m # UNDEF
            THEN [threw |-> TRUE, error |-> resolveError(m), configs |-> configs]
          ELSE IF b.throws # UNDEF
            THEN [threw |-> TRUE, error |-> Error(b.throws), configs |-> configs]
          ELSE runBlocks(blocks, k + 1, gone, addAll(configs, b.add))

\* Lines 8-197: the interpreter, custom entries pushed last.
interpret(c, gone) ==
  LET r == runBlocks(Blocks(c), 1, gone, <<>>)
  IN IF r.threw THEN r
     ELSE [r EXCEPT !.configs = r.configs \o c.polyfills.custom]
(***************************************************************************)
(* Texts.  '' is the text of one empty line; NoFile marks an absent file.  *)
(***************************************************************************)
NoFile == <<>>

EmptyText == << <<>> >>

\* A line that starts with '//# sourceMappingURL' is one whose first token is this.
SourceMapToken == "//# sourceMappingURL=bundle.js.map"

\* A token the minifier cannot parse.
SyntaxErrorToken == "@"

\* String concatenation of two texts: the last line of a runs into the first of b.
ConcatText(a, b) ==
  SubSeq(a, 1, Len(a) - 1) \o << a[Len(a)] \o b[1] >> \o Tail(b)

\* Array.prototype.join('') over texts.
RECURSIVE JoinTexts(_)
JoinTexts(texts) ==
  IF texts = <<>> THEN EmptyText
  ELSE IF Len(texts) = 1 THEN texts[1]
  ELSE ConcatText(texts[1], JoinTexts(Tail(texts)))

\* Lines 205-213: every line starting with the source map directive becomes ''.
stripSourceMapUrl(contentLines) ==
  [k \in DOMAIN contentLines |->
     IF contentLines[k] # <<>> /\ contentLines[k][1] = SourceMapToken
       THEN <<>> ELSE contentLines[k]]

\* Line 201: the file exists and is a regular file.
fileExists(d, filePath) == filePath \in DOMAIN d /\ d[filePath] # NoFile

\* Lines 199-214 for a file that exists.
readPolyfillFileContents(d, filePath) == stripSourceMapUrl(d[filePath])

\* The index of the first path of files that is no file, 0 when all exist.
RECURSIVE firstUnreadable(_, _, _)
firstUnreadable(d, files, k) ==
  IF k > Len(files) THEN 0
  ELSE IF ~fileExists(d, files[k]) THEN k
  ELSE firstUnreadable(d, files, k + 1)

\* Lines 223-227: the content of an entry all of whose files exist.
entryContent(d, path) ==
  IF path.kind = "array"
    THEN JoinTexts([k \in DOMAIN path.files |-> readPolyfillFileContents(d, path.files[k])])
    ELSE readPolyfillFileContents(d, path.files[1])

(***************************************************************************)
(* Terser.minify (line 229): rejects a text it cannot parse; otherwise the *)
(* code is the text's tokens on one line, comments dropped.                *)
(***************************************************************************)
RECURSIVE Tokens(_)
Tokens(text) ==
  IF text = <<>> THEN <<>>
  ELSE SelectSeq(Head(text), LAMBDA t : t # SourceMapToken) \o Tokens(Tail(text))

minifyRejects(text) ==
  \E l \in DOMAIN text : \E k \in DOMAIN text[l] : text[l][k] = SyntaxErrorToken

minifyCode(text) == << Tokens(text) >>

\* utils.createContentHash: a deterministic identifier of the content.
createContentHash(text) == [md5 |-> text]

(***************************************************************************)
(* path.posix.join(dir, file) of line 234, for a non-empty dir and a file  *)
(* name that is one plain segment: the segments of dir are normalized      *)
(* ('' and '.' dropped, '..' resolved) and the file name is kept.          *)
(***************************************************************************)
RECURSIVE normalizeString(_, _, _)
normalizeString(segs, allowAboveRoot, res) ==
  IF segs = <<>> THEN res
  ELSE LET s == Head(segs)
           r == IF s = "" \/ s = "." THEN res
                ELSE IF s = ".."
                  THEN IF res # <<>> /\ res[Len(res)] # ".."
                         THEN SubSeq(res, 1, Len(res) - 1)
                       ELSE IF allowAboveRoot THEN Append(res, "..")
                       ELSE res
                ELSE Append(res, s)
       IN normalizeString(Tail(segs), allowAboveRoot, r)

\* A path string starts with '/' when its first segment is '' and another follows.
isAbsolute(segs) == Len(segs) > 1 /\ segs[1] = ""

posixJoinDir(dirSegs) ==
  (IF isAbsolute(dirSegs) THEN <<"">> ELSE <<>>)
    \o normalizeString(dirSegs, ~isAbsolute(dirSegs), <<>>)

\* Line 235: cfg.polyfillsDir || 'polyfills'.
polyfillsDirOf(c) ==
  IF c.polyfillsDir.defined /\ c.polyfillsDir.segs # <<"">>
    THEN c.polyfillsDir.segs ELSE <<"polyfills">>

\* Line 236 with the hash segment only when polyfills.hash is true.
hashSegmentWhenTrue(polyfills, text) ==
  IF polyfills.hash = "true" THEN <<createContentHash(text)>> ELSE <<>>

\* Line 236: the hash segment is present unless polyfills.hash is false.
hashSegment(polyfills, text) ==
  IF polyfills.hash # "false" THEN <<createContentHash(text)>> ELSE <<>>

\* Lines 234-237.
filePathOf(c, name, text) ==
  [dir |-> posixJoinDir(polyfillsDirOf(c)),
   file |-> [name |-> name, hash |-> hashSegment(c.polyfills, text), ext |-> "js"]]

\* Lines 239-246.
polyfillFileOf(c, polyfillConfig, text) ==
  [name |-> polyfillConfig.name,
   type |-> IF Truthy(polyfillConfig.fileType) THEN polyfillConfig.fileType
            ELSE fileTypes.SCRIPT,
   path |-> filePathOf(c, polyfillConfig.name, text),
   content |-> text,
   test |-> polyfillConfig.test,
   initializer |-> polyfillConfig.initializer]

(***************************************************************************)
(* The call.                                                               *)
(***************************************************************************)
Pending == [state |-> "pending", value |-> <<>>, error |-> Error(UNDEF)]

Fulfilled(files) == [state |-> "fulfilled", value |-> files, error |-> Error(UNDEF)]

Rejected(error) == [state |-> "rejected", value |-> <<>>, error |-> error]

\* Line 219 with && for ||: only an entry lacking both is refused.
invalidEntryWhenBothLack(polyfillConfig) ==
  ~Truthy(polyfillConfig.name) /\ PathFalsy(polyfillConfig.path)

\* Line 219: the entry lacks a name or a path.
invalidEntry(polyfillConfig) ==
  ~Truthy(polyfillConfig.name) \/ PathFalsy(polyfillConfig.path)

\* A throw anywhere in the async function rejects the promise.
Fail(error) ==
  /\ pc' = "failed"
  /\ result' = Rejected(error)

\* Lines 8-197 and 216: the synchronous head of the call.
Interpret ==
  /\ pc = "start"
  /\ LET r == interpret(cfg, missing)
     IN IF r.threw
          THEN /\ Fail(r.error)
               /\ UNCHANGED <<polyfillConfigs, idx>>
          ELSE /\ polyfillConfigs' = r.configs
               /\ idx' = 1
               /\ pc' = "loop"
               /\ UNCHANGED result
  /\ UNCHANGED <<cfg, missing, disk, polyfillFiles, content, fsReads, minifyCalls,
                 prev, edited>>

\* ReadEntry with content declared outside the loop and appended to.
ReadEntryAccumulating ==
  /\ pc = "loop"
  /\ idx <= Len(polyfillConfigs)
  /\ LET polyfillConfig == polyfillConfigs[idx]
         files == polyfillConfig.path.files
         bad == firstUnreadable(disk, files, 1)
     IN IF invalidEntry(polyfillConfig)
          THEN /\ Fail(Error("A polyfill should have a name and a path property."))
               /\ UNCHANGED <<content, fsReads>>
        ELSE IF bad # 0
          THEN /\ Fail(Error("Could not find a file at " \o files[bad]))
               /\ fsReads' = fsReads \o SubSeq(files, 1, bad - 1)
               /\ UNCHANGED content
        ELSE /\ content' = ConcatText(content, entryContent(disk, polyfillConfig.path))
             /\ fsReads' = fsReads \o files
             /\ pc' = IF Truthy(polyfillConfig.minify) THEN "minify" ELSE "emit"
             /\ UNCHANGED result
  /\ UNCHANGED <<cfg, missing, disk, polyfillConfigs, polyfillFiles, idx,
                 minifyCalls, prev, edited>>

\* Lines 218-227: validate the entry and read its sources.
ReadEntry ==
  /\ pc = "loop"
  /\ idx <= Len(polyfillConfigs)
  /\ LET polyfillConfig == polyfillConfigs[idx]
         files == polyfillConfig.path.files
         bad == firstUnreadable(disk, files, 1)
     IN IF invalidEntry(polyfillConfig)
          THEN /\ Fail(Error("A polyfill should have a name and a path property."))
               /\ UNCHANGED <<content, fsReads>>
        ELSE IF bad # 0
          THEN /\ Fail(Error("Could not find a file at " \o files[bad]))
               /\ fsReads' = fsReads \o SubSeq(files, 1, bad - 1)
               /\ UNCHANGED content
        ELSE /\ content' = entryContent(disk, polyfillConfig.path)
             /\ fsReads' = fsReads \o files
             /\ pc' = IF Truthy(polyfillConfig.minify) THEN "minify" ELSE "emit"
             /\ UNCHANGED result
  /\ UNCHANGED <<cfg, missing, disk, polyfillConfigs, polyfillFiles, idx,
                 minifyCalls, prev, edited>>

\* Lines 228-232: the awaited Terser.minify settles.
MinifyEntry ==
  /\ pc = "minify"
  /\ minifyCalls' = minifyCalls + 1
  /\ IF minifyRejects(content)
       THEN /\ Fail(Error("Terser: unexpected token"))
            /\ UNCHANGED content
       ELSE /\ content' = minifyCode(content)
            /\ pc' = "emit"
            /\ UNCHANGED result
  /\ UNCHANGED <<cfg, missing, disk, polyfillConfigs, polyfillFiles, idx, fsReads,
                 prev, edited>>

\* Lines 234-248: compute the path and push the PolyfillFile.
EmitEntry ==
  /\ pc = "emit"
  /\ polyfillFiles' =
       Append(polyfillFiles, polyfillFileOf(cfg, polyfillConfigs[idx], content))
  /\ idx' = idx + 1
  /\ pc' = "loop"
  /\ UNCHANGED <<cfg, missing, disk, polyfillConfigs, content, result, fsReads,
                 minifyCalls, prev, edited>>

\* Line 251.
Return ==
  /\ pc = "loop"
  /\ idx > Len(polyfillConfigs)
  /\ result' = Fulfilled(polyfillFiles)
  /\ pc' = "done"
  /\ UNCHANGED <<cfg, missing, disk, polyfillConfigs, polyfillFiles, idx, content,
                 fsReads, minifyCalls, prev, edited>>
(***************************************************************************)
(* The environment: configurations, installed packages and files.          *)
(***************************************************************************)
FlagNames ==
  {"coreJs", "URLPattern", "esModuleShims", "constructibleStylesheets",
   "regeneratorRuntime", "fetch", "abortController", "systemjs", "systemjsExtended",
   "dynamicImport", "intersectionObserver", "resizeObserver",
   "scopedCustomElementRegistry", "webcomponents", "shadyCssCustomStyle"}

AlwaysFlags == {"esModuleShims", "regeneratorRuntime"}

\* cfg.polyfills with the flags of on set (to 'always' for those of always).
Polyfills(on, always, hash, custom) ==
  [k \in FlagNames \cup {"hash", "custom"} |->
     IF k = "custom" THEN custom
     ELSE IF k = "hash" THEN hash
     ELSE IF k \in on THEN (IF k \in always THEN "always" ELSE "true")
     ELSE UNDEF]

NoDir == [defined |-> FALSE, segs |-> <<>>]

Dir(segs) == [defined |-> TRUE, segs |-> segs]

NoModern == [defined |-> FALSE, files |-> <<>>]

Modern(types) ==
  [defined |-> TRUE, files |-> [k \in DOMAIN types |-> [type |-> types[k], path |-> "app.js"]]]

NoLegacy == [defined |-> FALSE, entries |-> <<>>]

LegacyEntry(test, types) ==
  [test |-> test, files |-> [k \in DOMAIN types |-> [type |-> types[k], path |-> "legacy/app.js"]]]

Legacy(entries) == [defined |-> TRUE, entries |-> entries]

Config(polyfills, dir, modern, legacy) ==
  [polyfills |-> polyfills, polyfillsDir |-> dir, modern |-> modern, legacy |-> legacy]

FlagSets(flags, n) == {S \in SUBSET flags : Cardinality(S) <= n}

AlwaysChoices(on) ==
  IF on \cap AlwaysFlags = {} THEN {{}} ELSE {{}, on \cap AlwaysFlags}

RECURSIVE SeqsUpTo(_, _)
SeqsUpTo(S, n) ==
  IF n = 0 THEN {<<>>}
  ELSE LET shorter == SeqsUpTo(S, n - 1)
       IN shorter \cup {Append(q, x) : q \in shorter, x \in S}

\* Custom entries a caller may hand in.
customGood ==
  [name |-> "my-polyfill", path |-> PathString("custom/a.js"), test |-> "!window.My",
   initializer |-> "window.My.init()", minify |-> UNDEF, fileType |-> UNDEF]

customMinified ==
  [name |-> "my-bundle", path |-> PathArray(<<"custom/a.js", "custom/b.js">>),
   test |-> UNDEF, initializer |-> UNDEF, minify |-> "true", fileType |-> "module"]

customSystemjs ==
  [name |-> "systemjs", path |-> PathString("custom/b.js"), test |-> UNDEF,
   initializer |-> UNDEF, minify |-> UNDEF, fileType |-> fileTypes.SYSTEMJS]

customFetch ==
  [name |-> "fetch", path |-> PathString("custom/a.js"), test |-> "!window.fetch",
   initializer |-> UNDEF, minify |-> UNDEF, fileType |-> UNDEF]

customNoName == [customGood EXCEPT !.name = UNDEF]

customNoPath == [customMinified EXCEPT !.path = NoPath, !.name = "no-path"]

customGone ==
  [name |-> "gone", path |-> PathArray(<<"custom/a.js", "custom/gone.js">>),
   test |-> UNDEF, initializer |-> UNDEF, minify |-> UNDEF, fileType |-> UNDEF]

customWebcomponents ==
  [name |-> "webcomponents", path |-> PathString("custom/b.js"), test |-> UNDEF,
   initializer |-> UNDEF, minify |-> UNDEF, fileType |-> UNDEF]

customShared ==
  [name |-> "shared", path |-> PathArray(<<Resolved("core-js-bundle/minified.js"), "custom/a.js">>),
   test |-> UNDEF, initializer |-> UNDEF, minify |-> UNDEF, fileType |-> UNDEF]

CustomFiles == {"custom/a.js", "custom/b.js", "custom/gone.js"}

Files == {Resolved(spec) : spec \in Specifiers} \cup CustomFiles

\* Texts a file may hold.
Texts ==
  { << <<"a">> >>,
    << <<"b">>, <<SourceMapToken>> >>,
    << <<"b">>, <<>> >>,
    << <<"c">>, <<SyntaxErrorToken>> >> }

\* Every installed file holds its own code, followed by a source map directive.
LayoutSourceMaps ==
  [f \in Files |->
     IF f = "custom/gone.js" THEN NoFile
     ELSE IF f = "custom/a.js" THEN << <<"a">> >>
     ELSE << <<f>>, <<SourceMapToken>> >>]

\* Every installed file holds one line of its own code.
LayoutPlain ==
  [f \in Files |-> IF f = "custom/gone.js" THEN NoFile ELSE << <<f>> >>]

\* All installed files hold the same two-line text.
LayoutSame ==
  [f \in Files |-> IF f = "custom/gone.js" THEN NoFile ELSE << <<"x">>, <<"y">> >>]

Layouts == {LayoutSourceMaps, LayoutPlain, LayoutSame}

\* The files of a package that cannot be located are not on the disk.
DiskOf(layout, gone) ==
  [f \in Files |-> IF f \in {Resolved(spec) : spec \in gone} THEN NoFile ELSE layout[f]]

\* The state in which createPolyfillsData(c) is called.
CallWith(c, gone, layout) ==
  /\ cfg = c
  /\ missing = gone
  /\ disk = DiskOf(layout, gone)
  /\ pc = "start"
  /\ polyfillConfigs = <<>>
  /\ polyfillFiles = <<>>
  /\ idx = 0
  /\ content = EmptyText
  /\ result = Pending
  /\ fsReads = <<>>
  /\ minifyCalls = 0
  /\ prev = Pending
  /\ edited = {}

\* A source file is edited and createPolyfillsData is called again with the same cfg.
Rebuild ==
  /\ pc \in {"done", "failed"}
  /\ prev = Pending
  /\ \E f \in Files, t \in Texts :
       /\ disk[f] # NoFile
       /\ disk[f] # t
       /\ disk' = [disk EXCEPT ![f] = t]
       /\ edited' = {f}
  /\ prev' = result
  /\ pc' = "start"
  /\ polyfillConfigs' = <<>>
  /\ polyfillFiles' = <<>>
  /\ idx' = 0
  /\ content' = EmptyText
  /\ result' = Pending
  /\ fsReads' = <<>>
  /\ minifyCalls' = 0
  /\ UNCHANGED <<cfg, missing>>

\* One call of createPolyfillsData.
Call == Interpret \/ ReadEntry \/ MinifyEntry \/ EmitEntry \/ Return

Next == Interpret \/ ReadEntry \/ MinifyEntry \/ EmitEntry \/ Return \/ Rebuild

(***************************************************************************)
(* Spec: a build followed by one rebuild after an edit of a source file.   *)
(***************************************************************************)
RebuildFlagSets ==
  {{}, {"coreJs"}, {"fetch", "abortController"}, {"coreJs", "resizeObserver"},
   {"webcomponents", "shadyCssCustomStyle"}, {"webcomponents", "URLPattern"}}

RebuildCustoms ==
  {<<>>, <<customGood>>, <<customMinified, customGood>>, <<customShared>>,
   <<customShared, customGood>>}

Init ==
  \E on \in RebuildFlagSets, custom \in RebuildCustoms, hash \in {UNDEF, "false"} :
    CallWith(Config(Polyfills(on, {}, hash, custom), NoDir, NoModern, NoLegacy),
             {}, LayoutSourceMaps)

Spec == Init /\ [][Next]_vars
(***************************************************************************)
(* Claims about a rebuild (Spec).                                          *)
(***************************************************************************)
\* Both calls succeeded, with hashing enabled, and one source file differs.
TwoBuilds ==
  /\ pc = "done"
  /\ prev.state = "fulfilled"
  /\ result.state = "fulfilled"
  /\ cfg.polyfills.hash # "false"
  /\ Cardinality(edited) = 1

\* The entries whose output path differs between the two calls.
ChangedPaths ==
  {k \in DOMAIN result.value : result.value[k].path # prev.value[k].path}

\* The entries that list file f among their sources.
Owners(f) ==
  {k \in DOMAIN polyfillConfigs :
     \E j \in DOMAIN polyfillConfigs[k].path.files : polyfillConfigs[k].path.files[j] = f}

\* C5 as stated: after a change of one source file, with hashing enabled, the
\* two output lists differ in the path of one entry only, whatever the custom
\* entries list as sources.
C5_OnlyOnePathChanges ==
  TwoBuilds =>
    /\ Len(result.value) = Len(prev.value)
    /\ Cardinality(ChangedPaths) <= 1

\* C5 amended: after a change of one source file, with hashing enabled, only
\* entries that list the changed file among their sources change path; every
\* other entry keeps its path (so one entry at most changes when no two entries
\* share the file).
C5_OnlyOwnersChange ==
  TwoBuilds =>
    /\ Len(result.value) = Len(prev.value)
    /\ \A f \in edited : ChangedPaths \subseteq Owners(f)
    /\ (\A f \in edited : Cardinality(Owners(f)) <= 1) => Cardinality(ChangedPaths) <= 1

\* C5 witness: a rebuild in which one entry changed path and another kept it.
C5_Witness ==
  /\ TwoBuilds
  /\ Cardinality(ChangedPaths) = 1
  /\ Len(result.value) >= 2
(***************************************************************************)
(* SpecOrder: one call, over the flag combinations, custom lists and       *)
(* declared legacy files; every package is installed.                      *)
(***************************************************************************)
OrderCustoms == {customFetch, customMinified, customSystemjs}

OrderFiles ==
  {<<NoModern, NoLegacy>>,
   <<Modern(<<"module">>), Legacy(<<LegacyEntry(noModuleSupportTest, <<"systemjs">>)>>)>>}

InitOrder ==
  \E on \in FlagSets(FlagNames, MaxEnabled), custom \in SeqsUpTo(OrderCustoms, MaxCustom),
     files \in OrderFiles :
    \E always \in AlwaysChoices(on) :
      CallWith(Config(Polyfills(on, always, UNDEF, custom), NoDir, files[1], files[2]),
               {}, LayoutSourceMaps)

SpecOrder == InitOrder /\ [][Call]_vars

\* The built-in names in the order the spec fixes.
BuiltinOrder ==
  <<"core-js", "urlpattern-polyfill", "es-module-shims",
    "constructible-style-sheets-polyfill", "regenerator-runtime", "fetch", "systemjs",
    "dynamic-import", "intersection-observer", "resize-observer",
    "scoped-custom-element-registry", "webcomponents", "custom-elements-es5-adapter",
    "webcomponents-shady-css-custom-style">>

Rank(name) == CHOOSE k \in DOMAIN BuiltinOrder : BuiltinOrder[k] = name

\* The built-in names a configuration enables.
EnabledNames(c) ==
  LET p == c.polyfills
      flagged(flag, name) == IF Truthy(p[flag]) THEN {name} ELSE {}
  IN flagged("coreJs", "core-js") \cup flagged("URLPattern", "urlpattern-polyfill")
     \cup flagged("esModuleShims", "es-module-shims")
     \cup flagged("constructibleStylesheets", "constructible-style-sheets-polyfill")
     \cup flagged("regeneratorRuntime", "regenerator-runtime")
     \cup flagged("fetch", "fetch")
     \cup (IF \/ Truthy(p.systemjs) \/ Truthy(p.systemjsExtended)
              \/ (hasFileOfType(c, "systemjs") /\
                  \A k \in DOMAIN p.custom : p.custom[k].name # "systemjs")
             THEN {"systemjs"} ELSE {})
     \cup flagged("dynamicImport", "dynamic-import")
     \cup flagged("intersectionObserver", "intersection-observer")
     \cup flagged("resizeObserver", "resize-observer")
     \cup flagged("scopedCustomElementRegistry", "scoped-custom-element-registry")
     \cup (IF Truthy(p.webcomponents) /\ ~Truthy(p.shadyCssCustomStyle)
             THEN {"webcomponents", "custom-elements-es5-adapter"} ELSE {})
     \cup (IF Truthy(p.webcomponents) /\ Truthy(p.shadyCssCustomStyle)
             THEN {"webcomponents-shady-css-custom-style"} ELSE {})

Succeeded == pc = "done" /\ result.state = "fulfilled"

\* The number of artifacts that stem from built-in entries.
BuiltinCount == Len(result.value) - Len(cfg.polyfills.custom)

\* C2: a successful call returns one artifact per entry, in order: the enabled
\* built-ins in the fixed order, then the custom entries in the caller's order,
\* each artifact with the name, test and initializer of its entry.
C2_ArtifactsFollowEntries ==
  Succeeded =>
    /\ Len(result.value) = Len(polyfillConfigs)
    /\ \A k \in DOMAIN result.value :
         /\ result.value[k].name = polyfillConfigs[k].name
         /\ result.value[k].test = polyfillConfigs[k].test
         /\ result.value[k].initializer = polyfillConfigs[k].initializer
    /\ BuiltinCount = Cardinality(EnabledNames(cfg))
    /\ {result.value[k].name : k \in 1..BuiltinCount} = EnabledNames(cfg)
    /\ \A j, k \in 1..BuiltinCount :
         j < k => Rank(result.value[j].name) < Rank(result.value[k].name)
    /\ \A k \in DOMAIN cfg.polyfills.custom :
         /\ result.value[BuiltinCount + k].name = cfg.polyfills.custom[k].name
         /\ result.value[BuiltinCount + k].test = cfg.polyfills.custom[k].test
         /\ result.value[BuiltinCount + k].initializer = cfg.polyfills.custom[k].initializer

\* C2 witness: a successful call with two built-in and two custom artifacts.
C2_Witness ==
  /\ Succeeded
  /\ BuiltinCount = 2
  /\ Len(cfg.polyfills.custom) = 2
  /\ cfg.polyfills.custom[1] # cfg.polyfills.custom[2]

NamesDistinct(files) ==
  \A j, k \in DOMAIN files : j # k => files[j].name # files[k].name

\* C6 as stated: no two artifacts of a successful call have the same name,
\* whatever the flags, declared files and custom entries.
C6_NamesUnique == Succeeded => NamesDistinct(result.value)

\* C6 amended: the artifacts of the built-in entries have pairwise distinct
\* names; all artifacts have distinct names whenever the custom entries' names
\* are pairwise distinct and none of them is the name of an enabled built-in.
C6_BuiltinNamesUnique ==
  Succeeded =>
    /\ NamesDistinct(SubSeq(result.value, 1, BuiltinCount))
    /\ ( /\ NamesDistinct(cfg.polyfills.custom)
         /\ \A k \in DOMAIN cfg.polyfills.custom :
              cfg.polyfills.custom[k].name \notin EnabledNames(cfg)
         => NamesDistinct(result.value) )

\* C6 witness: a successful call with both systemjs flags set and a custom entry.
C6_Witness ==
  /\ Succeeded
  /\ Truthy(cfg.polyfills.systemjs)
  /\ Truthy(cfg.polyfills.systemjsExtended)
  /\ Len(result.value) = 2

(***************************************************************************)
(* What a test expression evaluates to in a browser whose window and       *)
(* document have the properties caps ('x in window' is true exactly when   *)
(* window has property x).                                                 *)
(***************************************************************************)
Capabilities == {"URLPattern", "adoptedStyleSheets", "ResizeObserver"}

EvalTest(test, caps) ==
  CASE test = URLPatternTest -> "URLPattern" \in caps
    [] test = constructibleStylesheetsTest -> ~("adoptedStyleSheets" \in caps)
    [] test = resizeObserverTest -> ~("ResizeObserver" \in caps)
    [] OTHER -> TRUE

\* C10: the test of the urlpattern-polyfill artifact is true in exactly the
\* browsers that lack URLPattern, as the tests of the constructible stylesheets
\* and resize observer artifacts are for their capabilities.
C10_URLPatternLoadedWhenAbsent ==
  Succeeded =>
    \A k \in 1..BuiltinCount : \A caps \in SUBSET Capabilities :
      /\ result.value[k].name = "urlpattern-polyfill" =>
           (EvalTest(result.value[k].test, caps) <=> "URLPattern" \notin caps)
      /\ result.value[k].name = "constructible-style-sheets-polyfill" =>
           (EvalTest(result.value[k].test, caps) <=> "adoptedStyleSheets" \notin caps)
      /\ result.value[k].name = "resize-observer" =>
           (EvalTest(result.value[k].test, caps) <=> "ResizeObserver" \notin caps)
(***************************************************************************)
(* SpecSystemJs: one call, over the systemjs flags, custom entries and     *)
(* declared modern and legacy files.                                       *)
(***************************************************************************)
SystemjsFlags == {"systemjs", "systemjsExtended", "fetch", "dynamicImport"}

SystemjsFiles ==
  {<<NoModern, NoLegacy>>,
   <<Modern(<<"module">>), NoLegacy>>,
   <<Modern(<<"module", "systemjs">>), NoLegacy>>,
   <<Modern(<<"module">>), Legacy(<<LegacyEntry(noModuleSupportTest, <<"systemjs">>)>>)>>,
   <<Modern(<<"module">>), Legacy(<<LegacyEntry(noModuleSupportTest, <<"script">>)>>)>>,
   <<NoModern, Legacy(<<LegacyEntry("!window.A", <<"script">>),
                        LegacyEntry("!window.B", <<"script", "systemjs">>)>>)>>,
   <<Modern(<<"systemjs">>), Legacy(<<>>)>>}

InitSystemJs ==
  \E on \in SUBSET SystemjsFlags,
     custom \in SeqsUpTo({customSystemjs, customGood}, MaxCustom),
     files \in SystemjsFiles :
    CallWith(Config(Polyfills(on, {}, UNDEF, custom), NoDir, files[1], files[2]),
             {}, LayoutPlain)

SpecSystemJs == InitSystemJs /\ [][Call]_vars

\* The interpreter has produced polyfillConfigs.
Interpreted == idx >= 1

\* The entries of polyfillConfigs ahead of the custom entries.
BuiltinConfigs ==
  SubSeq(polyfillConfigs, 1, Len(polyfillConfigs) - Len(cfg.polyfills.custom))

DeclaresSystemjsFile ==
  \/ \E k \in DOMAIN cfg.modern.files : cfg.modern.files[k].type = "systemjs"
  \/ \E e \in DOMAIN cfg.legacy.entries : \E k \in DOMAIN cfg.legacy.entries[e].files :
       cfg.legacy.entries[e].files[k].type = "systemjs"

CustomNamesSystemjs ==
  \E k \in DOMAIN cfg.polyfills.custom : cfg.polyfills.custom[k].name = "systemjs"

\* C9: the interpreter appends exactly one systemjs entry when systemjs or
\* systemjsExtended is set, or when no custom entry is named systemjs and a
\* declared modern or legacy file has the systemjs type, and none otherwise;
\* its source is the extended one exactly when systemjsExtended is set.
C9_OneSystemjsEntry ==
  Interpreted =>
    LET entries == {k \in DOMAIN BuiltinConfigs : BuiltinConfigs[k].name = "systemjs"}
        wanted == \/ Truthy(cfg.polyfills.systemjs)
                  \/ Truthy(cfg.polyfills.systemjsExtended)
                  \/ (~CustomNamesSystemjs /\ DeclaresSystemjsFile)
    IN /\ Cardinality(entries) = IF wanted THEN 1 ELSE 0
       /\ \A k \in entries :
            BuiltinConfigs[k].path =
              IF Truthy(cfg.polyfills.systemjsExtended)
                THEN PathString(Resolved("systemjs/dist/system.min.js"))
                ELSE PathString(Resolved("systemjs/dist/s.min.js"))

\* C9 witness: declared systemjs files, a custom systemjs entry and no flag:
\* the interpreter has appended no systemjs entry of its own.
C9_Witness ==
  /\ Interpreted
  /\ DeclaresSystemjsFile
  /\ CustomNamesSystemjs
  /\ ~Truthy(cfg.polyfills.systemjs)
  /\ ~Truthy(cfg.polyfills.systemjsExtended)
  /\ pc = "done"

(***************************************************************************)
(* SpecResolve: one call, over the flag combinations and the packages the  *)
(* locator cannot find.                                                    *)
(***************************************************************************)
MissingSets == {{}} \cup {{spec} : spec \in Specifiers} \cup {Specifiers}

InitResolve ==
  \E on \in FlagSets(FlagNames, MaxEnabled), gone \in MissingSets,
     custom \in SeqsUpTo({customMinified}, MaxCustom) :
    CallWith(Config(Polyfills(on, {}, UNDEF, custom), NoDir, NoModern, NoLegacy),
             gone, LayoutSourceMaps)

SpecResolve == InitResolve /\ [][Call]_vars

AbortControllerWithoutFetch ==
  Truthy(cfg.polyfills.abortController) /\ ~Truthy(cfg.polyfills.fetch)

ConfigurationError == Error("Cannot polyfill AbortController without fetch.")

NoIO == fsReads = <<>> /\ minifyCalls = 0

\* C1 as stated: with abortController set and fetch not set the call fails with
\* the configuration error, before any read or minification, whatever the other
\* flags, the custom list and the outcome of locating the other sources.
C1_AlwaysConfigurationError ==
  AbortControllerWithoutFetch /\ pc # "start" =>
    /\ pc = "failed"
    /\ result = Rejected(ConfigurationError)
    /\ NoIO

\* The specifiers of the flags whose blocks run before the check of line 85.
ResolvedBeforeCheck ==
  (IF Truthy(cfg.polyfills.coreJs) THEN {"core-js-bundle/minified.js"} ELSE {})
  \cup (IF Truthy(cfg.polyfills.URLPattern) THEN {"urlpattern-polyfill"} ELSE {})
  \cup (IF Truthy(cfg.polyfills.esModuleShims) THEN {"es-module-shims"} ELSE {})
  \cup (IF Truthy(cfg.polyfills.constructibleStylesheets)
          THEN {"construct-style-sheets-polyfill"} ELSE {})
  \cup (IF Truthy(cfg.polyfills.regeneratorRuntime)
          THEN {"regenerator-runtime/runtime"} ELSE {})

\* C1 amended: with abortController set and fetch not set the call always fails
\* before any read or minification; it fails with the configuration error
\* whenever the sources of the enabled polyfills that precede the check
\* (core-js, urlpattern, es-module-shims, constructible stylesheets,
\* regenerator-runtime) are located, and with the locator's error otherwise.
C1_ConfigurationErrorAfterResolution ==
  AbortControllerWithoutFetch /\ pc # "start" =>
    /\ pc = "failed"
    /\ NoIO
    /\ (ResolvedBeforeCheck \cap missing = {} => result = Rejected(ConfigurationError))
    /\ (ResolvedBeforeCheck \cap missing # {} =>
          /\ result.state = "rejected"
          /\ result.error # ConfigurationError)

\* C1 witness: the configuration error, with a custom entry present and a
\* package of a later block not installed.
C1_Witness ==
  /\ AbortControllerWithoutFetch
  /\ result = Rejected(ConfigurationError)
  /\ Truthy(cfg.polyfills.resizeObserver)
  /\ missing = {"resize-observer-polyfill/dist/ResizeObserver.global.js"}
  /\ Len(cfg.polyfills.custom) = 2

\* The message addPolyfillConfig gives a resolution error (lines 17-20).
ResolutionMessages ==
  {"[Polyfills loader]: Error resolving polyfill " \o BuiltinOrder[k]
     \o " Are dependencies installed correctly?" : k \in DOMAIN BuiltinOrder}

\* C7: a failure to locate the source of an enabled built-in polyfill reaches
\* the caller as a resolution error that names the polyfill, never as the
\* locator's raw module-not-found error.
C7_ResolutionErrorNamesPolyfill ==
  result.state = "rejected" =>
    /\ result.error.code # "MODULE_NOT_FOUND"
    /\ (~Interpreted /\ result.error # ConfigurationError =>
          result.error.message \in ResolutionMessages)

(***************************************************************************)
(* SpecCustom: one call, over the flag combinations and custom lists with  *)
(* malformed entries.                                                      *)
(***************************************************************************)
\* The installed fetch bundle is one the minifier cannot parse.
LayoutBrokenFetch ==
  [LayoutSourceMaps EXCEPT ![Resolved("whatwg-fetch/dist/fetch.umd.js")] =
     << <<"c">>, <<SyntaxErrorToken>> >>]

CustomEnvironments ==
  {<<{}, LayoutSourceMaps>>, <<{"core-js-bundle/minified.js"}, LayoutSourceMaps>>,
   <<{}, LayoutBrokenFetch>>}

InitCustom ==
  \E on \in FlagSets(FlagNames, MaxEnabled),
     custom \in SeqsUpTo({customMinified, customNoName, customNoPath, customGone},
                         MaxCustom),
     env \in CustomEnvironments :
    CallWith(Config(Polyfills(on, {}, UNDEF, custom), NoDir, NoModern, NoLegacy),
             env[1], env[2])

SpecCustom == InitCustom /\ [][Call]_vars

Malformed(entry) == entry.name = UNDEF \/ entry.path = NoPath

\* The text is one the minifier accepts.
Minifiable(text) ==
  \A l \in DOMAIN text : \A t \in DOMAIN text[l] : text[l][t] # SyntaxErrorToken

\* The entry has a name and sources, its files exist and its minification succeeds.
ValidEntry(entry) ==
  /\ ~Malformed(entry)
  /\ \A j \in DOMAIN entry.path.files : fileExists(disk, entry.path.files[j])
  /\ Truthy(entry.minify) =>
       \A j \in DOMAIN entry.path.files : Minifiable(disk[entry.path.files[j]])

\* The specifiers the enabled flags resolve are all installed.
BuiltinsLocated ==
  \/ missing = {}
  \/ LET blocks == Blocks(cfg)
     IN \A k \in DOMAIN blocks : \A j \in DOMAIN blocks[k].resolve :
          blocks[k].resolve[j] \notin missing

\* A custom entry is malformed and every other entry of the call is valid.
MalformedAmongValid ==
  /\ \E k \in DOMAIN cfg.polyfills.custom : Malformed(cfg.polyfills.custom[k])
  /\ \A k \in DOMAIN cfg.polyfills.custom :
       Malformed(cfg.polyfills.custom[k]) \/ ValidEntry(cfg.polyfills.custom[k])
  /\ BuiltinsLocated
  /\ \A k \in DOMAIN polyfillConfigs :
       Malformed(polyfillConfigs[k]) \/ ValidEntry(polyfillConfigs[k])

ValidationError == Error("A polyfill should have a name and a path property.")

Settled == pc \in {"done", "failed"}

\* C3 as stated: a custom entry without name or path, all other entries being
\* valid, makes the call fail with the validation error and return no
\* artifact, wherever it stands and whichever built-in flags are set.
C3_MalformedAlwaysValidationError ==
  Settled /\ MalformedAmongValid =>
    /\ result = Rejected(ValidationError)
    /\ result.value = <<>>

\* C3 amended: the same, for every flag combination but abortController without
\* fetch, for which the call fails with the configuration error of line 86
\* before it looks at the custom entries.
C3_MalformedValidationError ==
  Settled /\ MalformedAmongValid =>
    IF AbortControllerWithoutFetch
      THEN result = Rejected(ConfigurationError)
      ELSE /\ result = Rejected(ValidationError)
           /\ result.value = <<>>

\* C3 witness: the validation error for a malformed entry that stands last,
\* after a built-in and a custom entry have been materialized.
C3_Witness ==
  /\ MalformedAmongValid
  /\ result = Rejected(ValidationError)
  /\ Len(polyfillFiles) = 2
  /\ Len(cfg.polyfills.custom) = 2
  /\ minifyCalls >= 1

(***************************************************************************)
(* SpecPath: one call, over output directories, the hash flag and file     *)
(* contents.                                                               *)
(***************************************************************************)
PathFlags ==
  {"coreJs", "fetch", "abortController", "intersectionObserver", "webcomponents",
   "shadyCssCustomStyle"}

Dirs ==
  {NoDir, Dir(<<"">>), Dir(<<"polyfills">>), Dir(<<"static", "polyfills">>),
   Dir(<<"static", "">>), Dir(<<".", "out">>), Dir(<<"a", "..", "b">>),
   Dir(<<"", "abs", "dir">>), Dir(<<"..", "up">>)}

InitPath ==
  \E on \in FlagSets(PathFlags, MaxEnabled), hash \in {UNDEF, "true", "false"},
     dir \in Dirs, layout \in Layouts,
     custom \in SeqsUpTo({customMinified}, MaxCustom) :
    CallWith(Config(Polyfills(on, {}, hash, custom), dir, NoModern, NoLegacy),
             {}, layout)

SpecPath == InitPath /\ [][Call]_vars

\* <dir> of the claim: cfg.polyfillsDir, or 'polyfills' when none is given.
ClaimedDir ==
  IF cfg.polyfillsDir.defined /\ cfg.polyfillsDir.segs # <<"">>
    THEN cfg.polyfillsDir.segs ELSE <<"polyfills">>

\* The final content of entry k: concatenated and, when requested, minified.
FinalContent(k) ==
  LET text == entryContent(disk, polyfillConfigs[k].path)
  IN IF Truthy(polyfillConfigs[k].minify) THEN minifyCode(text) ELSE text

\* The file name '<name>.<hash(content)>.js', or '<name>.js' when hash is false.
ClaimedFile(k) ==
  [name |-> polyfillConfigs[k].name,
   hash |-> IF cfg.polyfills.hash = "false" THEN <<>>
            ELSE <<createContentHash(FinalContent(k))>>,
   ext |-> "js"]

\* C4 as stated: every artifact's path is exactly '<dir>/<name>.<hash>.js', or
\* '<dir>/<name>.js' when polyfills.hash is false, content being the final one.
C4_PathIsDirSlashName ==
  Succeeded =>
    \A k \in DOMAIN result.value :
      /\ result.value[k].content = FinalContent(k)
      /\ result.value[k].path = [dir |-> ClaimedDir, file |-> ClaimedFile(k)]

\* The directory has no empty, '.' or '..' segment: it is its own normal form.
NormalDir(segs) == \A j \in DOMAIN segs : segs[j] \notin {"", ".", ".."}

\* C4 amended: the file name is '<name>.<hash(content)>.js', or '<name>.js' when
\* polyfills.hash is false, content being the final one; the directory is <dir>
\* as path.posix.join normalizes it (no empty or '.' segment, '..' resolved),
\* which is <dir> itself when <dir> has no empty, '.' or '..' segment.
C4_PathIsNormalizedDirSlashName ==
  Succeeded =>
    \A k \in DOMAIN result.value :
      /\ result.value[k].content = FinalContent(k)
      /\ result.value[k].path.file = ClaimedFile(k)
      /\ (cfg.polyfills.hash = "false" <=> result.value[k].path.file.hash = <<>>)
      /\ \A j \in DOMAIN result.value[k].path.dir :
           /\ result.value[k].path.dir[j] # "."
           /\ result.value[k].path.dir[j] = "" => j = 1 /\ isAbsolute(ClaimedDir)
      /\ (NormalDir(ClaimedDir) => result.value[k].path.dir = ClaimedDir)

\* C4 witness: a hashed path of a minified artifact under a given directory,
\* with polyfills.hash left undefined.
C4_Witness ==
  /\ Succeeded
  /\ cfg.polyfills.hash = UNDEF
  /\ cfg.polyfillsDir = Dir(<<"static", "polyfills">>)
  /\ \E k \in DOMAIN result.value :
       /\ Truthy(polyfillConfigs[k].minify)
       /\ result.value[k].path.file.hash # <<>>
       /\ result.value[k].content # entryContent(disk, polyfillConfigs[k].path)

(***************************************************************************)
(* SpecShady: one call with webcomponents and shadyCssCustomStyle set,     *)
(* over the other flags and the file contents.                             *)
(***************************************************************************)
ShadyFlags == {"webcomponents", "shadyCssCustomStyle"}

InitShady ==
  \E others \in FlagSets(FlagNames \ ShadyFlags, MaxEnabled), layout \in Layouts,
     custom \in SeqsUpTo({customWebcomponents}, MaxCustom) :
    CallWith(Config(Polyfills(ShadyFlags \cup others, {}, UNDEF, custom),
                    NoDir, NoModern, NoLegacy),
             {}, layout)

SpecShady == InitShady /\ [][Call]_vars

ShadyName == "webcomponents-shady-css-custom-style"

\* The text of the k-th source of the shady-css bundle, as it is on the disk.
ShadySourceText(k) == disk[Resolved(shadyCssCustomStyleSources[k])]

\* C8 as stated: with webcomponents and shadyCssCustomStyle set, a successful
\* call yields exactly one webcomponents-shady-css-custom-style artifact whose
\* content is the texts of the three sources concatenated in order, and no
\* artifact named webcomponents or custom-elements-es5-adapter.
C8_ShadyBundleIsSourceTexts ==
  Succeeded /\ Truthy(cfg.polyfills.webcomponents)
            /\ Truthy(cfg.polyfills.shadyCssCustomStyle) =>
    /\ Cardinality({k \in DOMAIN result.value : result.value[k].name = ShadyName}) = 1
    /\ \A k \in DOMAIN result.value :
         /\ result.value[k].name \notin {"webcomponents", "custom-elements-es5-adapter"}
         /\ result.value[k].name = ShadyName =>
              result.value[k].content =
                ConcatText(ConcatText(ShadySourceText(1), ShadySourceText(2)),
                           ShadySourceText(3))

\* C8 amended: among the artifacts of the built-in entries there is exactly one
\* named webcomponents-shady-css-custom-style, and none named webcomponents or
\* custom-elements-es5-adapter; its content is the texts of the three sources,
\* each with its source map directive lines blanked, concatenated in order
\* with nothing between them.
C8_ShadyBundleIsStrippedSourceTexts ==
  Succeeded /\ Truthy(cfg.polyfills.webcomponents)
            /\ Truthy(cfg.polyfills.shadyCssCustomStyle) =>
    /\ Cardinality({k \in 1..BuiltinCount : result.value[k].name = ShadyName}) = 1
    /\ \A k \in 1..BuiltinCount :
         /\ result.value[k].name \notin {"webcomponents", "custom-elements-es5-adapter"}
         /\ result.value[k].name = ShadyName =>
              result.value[k].content =
                ConcatText(ConcatText(stripSourceMapUrl(ShadySourceText(1)),
                                      stripSourceMapUrl(ShadySourceText(2))),
                           stripSourceMapUrl(ShadySourceText(3)))

\* C8 witness: a successful call whose three sources differ and carry source
\* map directives, with other built-in artifacts around the bundle.
C8_Witness ==
  /\ Succeeded
  /\ Truthy(cfg.polyfills.webcomponents)
  /\ Truthy(cfg.polyfills.shadyCssCustomStyle)
  /\ BuiltinCount = 3
  /\ ShadySourceText(1) # ShadySourceText(2)
  /\ ShadySourceText(2) # ShadySourceText(3)
  /\ ShadySourceText(1)[2] = <<SourceMapToken>>
====
